---- MODULE Spec2Model ----
(***************************************************************************)
(* The two servers of afrobeat-commander as one state machine.             *)
(*   FlatFile   : src/server.js          (one JSON document on disk)       *)
(*   Relational : src/unnamed/part_000   (table app_data(key, value))      *)
(* A request is handled by an async Express handler: the code between two  *)
(* awaits runs without interruption, every await on the backing medium is  *)
(* a point where other requests run.  One action per such step.            *)
(***************************************************************************)
EXTENDS Integers, Sequences, FiniteSets, TLC

(***************************************************************************)
(* Bounds of the model.                                                    *)
(***************************************************************************)
\* Requests that arrive in one behaviour.
MaxReqs == 2
\* Ticks of the clock Date.now() reads in one behaviour.
MaxClock == 2
\* Concerts, and links, stored by earlier requests when the behaviour starts.
MaxPrior == 3

(***************************************************************************)
(* JavaScript / JSON values.  Every value is a record with the same four   *)
(* fields: its type t, the text s of a scalar, the items l of an array and *)
(* the properties o of an object.                                          *)
(***************************************************************************)
NoProps == [k \in {} |-> ""]

JUndefined == [t |-> "undefined", s |-> "", l |-> <<>>, o |-> NoProps]

JNull == [t |-> "null", s |-> "", l |-> <<>>, o |-> NoProps]

JBool(b) == [t |-> "boolean", s |-> b, l |-> <<>>, o |-> NoProps]

JNum(n) == [t |-> "number", s |-> n, l |-> <<>>, o |-> NoProps]

JStr(str) == [t |-> "string", s |-> str, l |-> <<>>, o |-> NoProps]

JArr(items) == [t |-> "array", s |-> "", l |-> items, o |-> NoProps]

JObj(props) == [t |-> "object", s |-> "", l |-> <<>>, o |-> props]

\* ToBoolean of JavaScript: what `x || y` and `x ? y : z` test.
Truthy(v) ==
    CASE v.t \in {"undefined", "null"} -> FALSE
      [] v.t = "boolean" -> v.s = "true"
      [] v.t = "number" -> v.s \notin {"0", "NaN"}
      [] v.t = "string" -> v.s # ""
      [] OTHER -> TRUE

\* a || b
Or(a, b) == IF Truthy(a) THEN a ELSE b

\* obj[k] of a JavaScript object: undefined when obj has no property k.
Prop(obj, k) == IF k \in DOMAIN obj THEN obj[k] ELSE JUndefined

\* obj[k] = v
Assign(obj, k, v) == [x \in DOMAIN obj \cup {k} |-> IF x = k THEN v ELSE obj[x]]

\* JSON.stringify followed by JSON.parse on the properties of an object:
\* a property whose value is undefined is not written.
StringifyProps(obj) == [k \in {x \in DOMAIN obj : obj[x].t # "undefined"} |-> obj[k]]

\* Mutant of Splice: list.splice(i, 2).
SpliceTwo(list, i) ==
    LET start == IF i < 0 THEN 0 ELSE i
    IN  SubSeq(list, 1, start) \o SubSeq(list, start + 3, Len(list))

\* list.splice(i, 1), i counted from 0: a negative i counts from the end, an
\* i past the end removes nothing.
SpliceNone(list, i) == list

Splice(list, i) ==
    LET start == IF i < 0 THEN (IF Len(list) + i < 0 THEN 0 ELSE Len(list) + i)
                 ELSE (IF i > Len(list) THEN Len(list) ELSE i)
    IN  SubSeq(list, 1, start) \o SubSeq(list, start + 2, Len(list))

\* list[i], i counted from 0: undefined outside the list.
At(list, i) == IF i >= 0 /\ i < Len(list) THEN list[i + 1] ELSE NoProps

(***************************************************************************)
(* parseInt(str) with no radix.  The result is [nan, n]: NaN or the        *)
(* integer n.                                                              *)
(***************************************************************************)
NaN == [nan |-> TRUE, n |-> 0]

Digits == <<"0", "1", "2", "3", "4", "5", "6", "7", "8", "9">>

IsDigit(c) == \E d \in 1..10 : Digits[d] = c

DigitVal(c) == (CHOOSE d \in 1..10 : Digits[d] = c) - 1

\* StrWhiteSpaceChar as far as a path segment can hold it after decoding.
IsSpace(c) == c = " "

RECURSIVE SkipSpace(_)
SkipSpace(str) ==
    IF Len(str) > 0 /\ IsSpace(SubSeq(str, 1, 1)) THEN SkipSpace(Tail(str)) ELSE str

\* The value of the longest prefix of decimal digits of str, acc so far.
RECURSIVE LeadingDigits(_, _, _)
LeadingDigits(str, acc, seen) ==
    IF Len(str) > 0 /\ IsDigit(SubSeq(str, 1, 1))
    THEN LeadingDigits(Tail(str), 10 * acc + DigitVal(SubSeq(str, 1, 1)), TRUE)
    ELSE [nan |-> ~seen, n |-> acc]

HexDigits == <<"0", "1", "2", "3", "4", "5", "6", "7", "8", "9",
               "a", "b", "c", "d", "e", "f">>

HexUpper == <<"0", "1", "2", "3", "4", "5", "6", "7", "8", "9",
              "A", "B", "C", "D", "E", "F">>

IsHex(c) == \E d \in 1..16 : HexDigits[d] = c \/ HexUpper[d] = c

HexVal(c) == (CHOOSE d \in 1..16 : HexDigits[d] = c \/ HexUpper[d] = c) - 1

RECURSIVE LeadingHex(_, _, _)
LeadingHex(str, acc, seen) ==
    IF Len(str) > 0 /\ IsHex(SubSeq(str, 1, 1))
    THEN LeadingHex(Tail(str), 16 * acc + HexVal(SubSeq(str, 1, 1)), TRUE)
    ELSE [nan |-> ~seen, n |-> acc]

parseInt(str) ==
    LET s0 == SkipSpace(str)
        neg == Len(s0) > 0 /\ SubSeq(s0, 1, 1) = "-"
        signed == Len(s0) > 0 /\ SubSeq(s0, 1, 1) \in {"-", "+"}
        s1 == IF signed THEN Tail(s0) ELSE s0
        hex == Len(s1) >= 2 /\ SubSeq(s1, 1, 2) \in {"0x", "0X"}
        m == IF hex THEN LeadingHex(SubSeq(s1, 3, Len(s1)), 0, FALSE)
             ELSE LeadingDigits(s1, 0, FALSE)
    IN  IF m.nan THEN NaN ELSE [nan |-> FALSE, n |-> IF neg THEN 0 - m.n ELSE m.n]

\* Mutant of IndexInRange: index >= 0 && index <= length.
IndexUpToLength(index, length) == ~index.nan /\ index.n >= 0 /\ index.n <= length

\* index >= 0 && index < length, false whenever index is NaN.
IndexInRange(index, length) == ~index.nan /\ index.n >= 0 /\ index.n < length

(***************************************************************************)
(* decodeURIComponent(str): [ok, str].  ok is FALSE where the call throws  *)
(* URIError (a "%" not followed by two hexadecimal digits).                *)
(***************************************************************************)
\* The character of an escape sequence %XY.
Unescape(xy) ==
    CASE xy = "20" -> " "
      [] xy = "25" -> "%"
      [] xy \in {"5F", "5f"} -> "_"
      [] xy \in {"2F", "2f"} -> "/"
      [] OTHER -> "<" \o xy \o ">"

RECURSIVE decodeURIComponent(_)
decodeURIComponent(str) ==
    IF Len(str) = 0 THEN [ok |-> TRUE, str |-> ""]
    ELSE IF SubSeq(str, 1, 1) # "%"
    THEN LET rest == decodeURIComponent(Tail(str))
         IN  [ok |-> rest.ok, str |-> SubSeq(str, 1, 1) \o rest.str]
    ELSE IF Len(str) >= 3 /\ IsHex(SubSeq(str, 2, 2)) /\ IsHex(SubSeq(str, 3, 3))
    THEN LET rest == decodeURIComponent(SubSeq(str, 4, Len(str)))
         IN  [ok |-> rest.ok, str |-> Unescape(SubSeq(str, 2, 3)) \o rest.str]
    ELSE [ok |-> FALSE, str |-> ""]

(***************************************************************************)
(* Store keys.                                                             *)
(***************************************************************************)
\* FlatFile: `${decodedMember}_${year}_${month}`
FlatAvailabilityKey(member, year, month) == member \o "_" \o year \o "_" \o month

\* Relational: `availability_${decodedMember}_${year}_${month}`
availabilityKey(member, year, month) ==
    "availability_" \o member \o "_" \o year \o "_" \o month

\* Relational: `current_user_${req.params.userId}`
currentUserKey(userId) == "current_user_" \o userId

members == <<"Lead Guitar", "Bass", "Drums", "Keys", "Saxophone", "Vocals">>

(***************************************************************************)
(* Routes, in the order the server registers them.  A path is the sequence *)
(* of its segments, a segment of a pattern that starts with ":" is a       *)
(* parameter.  Express answers a request with the first route that matches.*)
(***************************************************************************)
Route(method, pattern, handler) ==
    [method |-> method, pattern |-> pattern, handler |-> handler]

FlatFileRoutes ==
    << Route("GET", <<"api", "data">>, "getAllData"),
       Route("GET", <<"api", "current-user", ":userId">>, "getCurrentUser"),
       Route("POST", <<"api", "current-user", ":userId">>, "setCurrentUser"),
       Route("GET", <<"api", "availability", ":member", ":year", ":month">>,
             "getAvailability"),
       Route("POST", <<"api", "availability", ":member", ":year", ":month">>,
             "setAvailability"),
       Route("GET", <<"api", "availability", "all", ":year", ":month">>,
             "getAllAvailabilities"),
       Route("GET", <<"api", "concerts">>, "getConcerts"),
       Route("POST", <<"api", "concerts">>, "addConcert"),
       Route("DELETE", <<"api", "concerts", ":index">>, "deleteConcert"),
       Route("GET", <<"api", "links">>, "getLinks"),
       Route("POST", <<"api", "links">>, "addLink"),
       Route("DELETE", <<"api", "links", ":index">>, "deleteLink"),
       Route("GET", <<"api", "health">>, "health") >>

RelationalRoutes ==
    << Route("GET", <<"api", "health">>, "health"),
       Route("GET", <<"api", "current-user", ":userId">>, "getCurrentUser"),
       Route("POST", <<"api", "current-user", ":userId">>, "setCurrentUser"),
       Route("GET", <<"api", "availability", ":member", ":year", ":month">>,
             "getAvailability"),
       Route("POST", <<"api", "availability", ":member", ":year", ":month">>,
             "setAvailability"),
       Route("GET", <<"api", "availability", "all", ":year", ":month">>,
             "getAllAvailabilities"),
       Route("GET", <<"api", "concerts">>, "getConcerts"),
       Route("POST", <<"api", "concerts">>, "addConcert"),
       Route("DELETE", <<"api", "concerts", ":index">>, "deleteConcert"),
       Route("GET", <<"api", "links">>, "getLinks"),
       Route("POST", <<"api", "links">>, "addLink"),
       Route("DELETE", <<"api", "links", ":index">>, "deleteLink") >>

Routes(be) == IF be = "FlatFile" THEN FlatFileRoutes ELSE RelationalRoutes

IsParam(seg) == Len(seg) > 0 /\ SubSeq(seg, 1, 1) = ":"

Matches(route, method, path) ==
    /\ route.method = method
    /\ Len(route.pattern) = Len(path)
    /\ \A i \in 1..Len(path) : IsParam(route.pattern[i]) \/ route.pattern[i] = path[i]

\* The index of the first registered route that matches, 0 when none does.
Dispatch(routes, method, path) ==
    LET hits == {i \in 1..Len(routes) : Matches(routes[i], method, path)}
    IN  IF hits = {} THEN 0 ELSE CHOOSE i \in hits : \A j \in hits : i <= j

\* req.params of a request answered by `route`.
Params(route, path) ==
    LET at == {i \in 1..Len(path) : IsParam(route.pattern[i])}
        name(i) == SubSeq(route.pattern[i], 2, Len(route.pattern[i]))
    IN  [n \in {name(i) : i \in at} |-> path[CHOOSE i \in at : name(i) = n]]

(***************************************************************************)
(* The backends.                                                           *)
(***************************************************************************)
\* FlatFile: the structure initDataFile writes and readData falls back to.
initialData ==
    [availabilities |-> NoProps, concerts |-> <<>>, links |-> <<>>,
     currentUsers |-> NoProps]

\* JSON.stringify(data, null, 2) as JSON.parse reads it back.
Stringify(data) ==
    [data EXCEPT !.availabilities = StringifyProps(@),
                 !.currentUsers = StringifyProps(@)]

\* readData(): the parsed file, or initialData when reading or parsing throws.
readData(f, ok) == IF ok THEN f ELSE initialData

\* Mutant of writeData: only the properties data holds are written, those the
\* file holds besides are kept (a merge instead of a replacement).
writeDataMerged(f, data, ok) ==
    IF ok
    THEN Stringify([data EXCEPT
            !.availabilities = [k \in DOMAIN @ \cup DOMAIN f.availabilities |->
                                  IF k \in DOMAIN @ THEN @[k] ELSE f.availabilities[k]],
            !.currentUsers = [k \in DOMAIN @ \cup DOMAIN f.currentUsers |->
                                IF k \in DOMAIN @ THEN @[k] ELSE f.currentUsers[k]]])
    ELSE f

\* writeData(data): the file afterwards; ok is FALSE when fs.writeFile throws.
writeData(f, data, ok) == IF ok THEN Stringify(data) ELSE f

\* getData(key): the value of the row, null when there is none or the query
\* throws.
getData(tbl, key, ok) == IF ok /\ key \in DOMAIN tbl THEN tbl[key] ELSE JNull

\* The upsert of setData throws when the medium fails and when the value is
\* SQL NULL (value JSONB NOT NULL); pg sends null and undefined as NULL.
UpsertOk(value, mediumOk) == mediumOk /\ value.t \notin {"null", "undefined"}

\* Mutant of setData: ON CONFLICT (key) DO NOTHING.
setDataInsertOnly(tbl, key, value, ok) ==
    IF ok /\ key \notin DOMAIN tbl THEN Assign(tbl, key, value) ELSE tbl

\* setData(key, value): the table afterwards (INSERT ... ON CONFLICT (key) DO
\* UPDATE SET value = $2, one statement).
setData(tbl, key, value, ok) == IF ok THEN Assign(tbl, key, value) ELSE tbl

(***************************************************************************)
(* Requests the clients send: req.method, the path, req.body as            *)
(* express.json() parsed it ({} when the request has no body).             *)
(***************************************************************************)
UserIds == {"u1", "u2"}

UserValues == {JNull, JBool("false"), JNum("0"), JStr(""), JStr("alice")}

MemberParams == {"Bass", "all"}

\* req.params of the availability routes: <<member, year, month>>.  A
\* parameter is any path segment, it may hold "_".
AvailabilityParams ==
    {<<m, "2025", "05">> : m \in MemberParams}
    \cup {<<"Bass_2025", "05", "05">>, <<"Bass", "2025_05", "05">>}

AvailabilityBodies == {("2025-05-01" :> "yes"), NoProps}

ConcertBodies ==
    {[location |-> "Venue A", date |-> "2025-05-01"],
     [location |-> "Venue B", date |-> "2025-06-01", addedAt |-> 0]}

LinkBodies == {[name |-> "Site"], [name |-> "Video"]}

IndexParams == {"0", "1", "2", "3", "-1", "abc", "1abc"}

Request(method, path, body) == [method |-> method, path |-> path, body |-> body]

Inputs ==
    {Request("GET", <<"api", "data">>, NoProps),
     Request("GET", <<"api", "health">>, NoProps),
     Request("GET", <<"api", "concerts">>, NoProps),
     Request("GET", <<"api", "links">>, NoProps)}
    \cup {Request("GET", <<"api", "current-user", u>>, NoProps) : u \in UserIds}
    \cup {Request("POST", <<"api", "current-user", u>>, [user |-> v]) :
            u \in UserIds, v \in UserValues}
    \cup {Request("POST", <<"api", "current-user", u>>, NoProps) : u \in UserIds}
    \cup {Request("GET", <<"api", "availability">> \o a, NoProps) :
            a \in AvailabilityParams}
    \cup {Request("POST", <<"api", "availability">> \o a, b) :
            a \in AvailabilityParams, b \in AvailabilityBodies}
    \cup {Request("POST", <<"api", "concerts">>, b) : b \in ConcertBodies}
    \cup {Request("POST", <<"api", "links">>, b) : b \in LinkBodies}
    \cup {Request("DELETE", <<"api", "concerts", i>>, NoProps) : i \in IndexParams}
    \cup {Request("DELETE", <<"api", "links", i>>, NoProps) : i \in IndexParams}

(***************************************************************************)
(* State.                                                                  *)
(***************************************************************************)
VARIABLES
    backend,    \* the server that runs: "FlatFile" or "Relational"
    up,         \* startServer has run the initialisation and the server listens
    exists,     \* FlatFile: data.json exists; Relational: app_data exists
    file,       \* FlatFile: data.json, the document last written in full
    truncated,  \* FlatFile: a writeFile that failed after it had opened
                \* data.json left a part of a document; JSON.parse throws
    table,      \* Relational: app_data, key -> value
    now,        \* the last value Date.now() returned
    reqs,       \* the requests, in order of arrival; of each, the handler's
                \* local variables and, as history, what its backend calls
                \* returned (read, write), how many writes it issued
                \* (nwrites) and how many writes had taken effect when it
                \* arrived and when its read was served (arrived, seen)
    log         \* history: the backend writes that took effect, in order

vars == <<backend, up, exists, file, truncated, table, now, reqs, log>>

Reqs == 1..MaxReqs

NoResponse == [status |-> 0, body |-> JUndefined]

\* A request that has not arrived.
NoRequest ==
    [pc |-> "none", method |-> "", path |-> <<>>, body |-> NoProps,
     handler |-> "", params |-> NoProps, key |-> "",
     read |-> "none", data |-> initialData, value |-> JUndefined,
     write |-> "none", nwrites |-> 0, newData |-> initialData,
     arrived |-> 0, seen |-> 0,
     newValue |-> JUndefined, item |-> NoProps, left |-> 0, acc |-> NoProps,
     res |-> NoResponse]

\* What earlier requests (of this run of the server or of one before it,
\* neither server clears its store when it starts) have left in the store:
\* the concerts and links of n POSTs, nothing else.
PriorConcerts(n) ==
    [i \in 1..n |-> [location |-> "Venue " \o Digits[i + 1], date |-> "2025-04-01",
                     addedAt |-> i]]

PriorLinks(n) == [i \in 1..n |-> [name |-> "Link " \o Digits[i + 1]]]

PriorFile(n) ==
    [initialData EXCEPT !.concerts = PriorConcerts(n), !.links = PriorLinks(n)]

PriorTable(n) ==
    IF n = 0 THEN NoProps
    ELSE [k \in {"concerts", "links"} |->
            IF k = "concerts" THEN JArr(PriorConcerts(n)) ELSE JArr(PriorLinks(n))]

Init ==
    /\ backend \in {"FlatFile", "Relational"}
    /\ \E n \in 0..MaxPrior :
        /\ file = IF backend = "FlatFile" THEN PriorFile(n) ELSE initialData
        /\ table = IF backend = "Relational" THEN PriorTable(n) ELSE NoProps
    /\ up = TRUE
    /\ exists = TRUE
    /\ truncated = FALSE
    /\ now = MaxPrior + 1
    /\ reqs = [r \in Reqs |-> NoRequest]
    /\ log = <<>>

(***************************************************************************)
(* What the handlers compute between two awaits.                           *)
(***************************************************************************)
Bool(b) == JBool(IF b THEN "true" ELSE "false")

EmptyObject == JObj(NoProps)

\* res.json(body), res.status(status).json(body)
Respond(q, status, body) ==
    [q EXCEPT !.pc = "done", !.res = [status |-> status, body |-> body]]

\* A rejected promise of an async handler: Express 4 sends no response.
Throw(q) == [q EXCEPT !.pc = "threw"]

\* await readData() / await getData(key) is pending.
AwaitRead(q, key) == [q EXCEPT !.pc = "read", !.key = key]

\* await writeData(data) is pending: the text to write is built at the call.
AwaitWriteData(q, data) ==
    [q EXCEPT !.pc = "write", !.newData = data, !.nwrites = @ + 1]

\* await setData(key, value) is pending.
AwaitSetData(q, key, value) ==
    [q EXCEPT !.pc = "write", !.key = key, !.newValue = value, !.nwrites = @ + 1]

\* Mutant of push: the item is put in front (list.unshift(item)).
unshift(list, item) == <<item>> \o list

\* list.push(item)
push(list, item) == Append(list, item)

newConcertKeepsClientStamp(body, t) ==
    IF "addedAt" \in DOMAIN body THEN body ELSE Assign(body, "addedAt", t)

\* { ...req.body, addedAt: Date.now() }
newConcert(body, t) == Assign(body, "addedAt", t)

\* { success }
SuccessBody(success) == JObj([success |-> Bool(success)])

\* res.status(400).json({ success: false, error: 'Index invalide' })
InvalidIndex(q) ==
    Respond(q, 400, JObj([success |-> Bool(FALSE), error |-> JStr("Index invalide")]))

\* The values Date.now() can return next: the clock never runs backwards.
Ticks == {t \in {now, now + 1} : t <= MaxPrior + MaxClock}

ReadsClock(q) == q.handler = "addConcert"

(***************************************************************************)
(* FlatFile handlers (src/server.js).                                      *)
(***************************************************************************)
\* From the arrival of the request to its first await.
FlatStart(q) ==
    CASE q.handler = "health" -> Respond(q, 200, JObj([status |-> JStr("ok")]))
      [] q.handler \in {"getAvailability", "setAvailability"} ->
            LET decodedMember == decodeURIComponent(q.params.member)
            IN  IF decodedMember.ok
                THEN AwaitRead(q, FlatAvailabilityKey(decodedMember.str,
                                                      q.params.year, q.params.month))
                ELSE Throw(q)
      [] q.handler \in {"getCurrentUser", "setCurrentUser"} ->
            AwaitRead(q, q.params.userId)
      [] OTHER -> AwaitRead(q, "")

\* The property of data a handler dereferences.
Dereferences(q) ==
    CASE q.handler \in {"getCurrentUser", "setCurrentUser"} -> "currentUsers"
      [] q.handler \in {"getAvailability", "setAvailability", "getAllAvailabilities"} ->
            "availabilities"
      [] q.handler \in {"getConcerts", "addConcert", "deleteConcert"} -> "concerts"
      [] q.handler \in {"getLinks", "addLink", "deleteLink"} -> "links"
      [] OTHER -> ""

\* From `const data = await readData()` to the next await or the response.
\* Where the parsed document has no property of the name, data.concerts is
\* undefined: res.json(undefined) sends 200 with no body, and a property
\* access on undefined throws TypeError.
FlatAfterRead(q, t) ==
    LET data == q.data
    IN  IF q.handler # "getAllData" /\ Dereferences(q) \notin DOMAIN data
        THEN (IF q.handler \in {"getConcerts", "getLinks"}
              THEN Respond(q, 200, JUndefined) ELSE Throw(q))
        ELSE
        CASE q.handler = "getAllData" -> Respond(q, 200, JObj(data))
          [] q.handler = "getCurrentUser" ->
                Respond(q, 200, JObj([user |-> Or(Prop(data.currentUsers, q.key), JNull)]))
          [] q.handler = "setCurrentUser" ->
                AwaitWriteData(q, [data EXCEPT !.currentUsers =
                                      Assign(@, q.key, Prop(q.body, "user"))])
          [] q.handler = "getAvailability" ->
                Respond(q, 200, Or(Prop(data.availabilities, q.key), EmptyObject))
          [] q.handler = "setAvailability" ->
                AwaitWriteData(q, [data EXCEPT !.availabilities =
                                      Assign(@, q.key, JObj(q.body))])
          [] q.handler = "getAllAvailabilities" ->
                Respond(q, 200,
                    JObj([m \in {members[i] : i \in 1..Len(members)} |->
                            Or(Prop(data.availabilities,
                                    FlatAvailabilityKey(m, q.params.year, q.params.month)),
                               EmptyObject)]))
          [] q.handler = "getConcerts" -> Respond(q, 200, JArr(data.concerts))
          [] q.handler = "addConcert" ->
                LET item == newConcert(q.body, t)
                IN  AwaitWriteData([q EXCEPT !.item = item],
                                   [data EXCEPT !.concerts = push(@, item)])
          [] q.handler = "deleteConcert" ->
                LET index == parseInt(q.params.index)
                IN  IF IndexInRange(index, Len(data.concerts))
                    THEN AwaitWriteData([q EXCEPT !.item = At(data.concerts, index.n)],
                                        [data EXCEPT !.concerts = Splice(@, index.n)])
                    ELSE InvalidIndex(q)
          [] q.handler = "getLinks" -> Respond(q, 200, JArr(data.links))
          [] q.handler = "addLink" ->
                AwaitWriteData([q EXCEPT !.item = q.body],
                               [data EXCEPT !.links = push(@, q.body)])
          [] q.handler = "deleteLink" ->
                LET index == parseInt(q.params.index)
                IN  IF IndexInRange(index, Len(data.links))
                    THEN AwaitWriteData([q EXCEPT !.item = At(data.links, index.n)],
                                        [data EXCEPT !.links = Splice(@, index.n)])
                    ELSE InvalidIndex(q)

\* From `const success = await writeData(data)` / `await setData(key, value)`
\* to the response; the same text in both servers.
AfterWrite(q, success) ==
    CASE q.handler = "setCurrentUser" ->
            Respond(q, 200, JObj(StringifyProps(
                [success |-> Bool(success), user |-> Prop(q.body, "user")])))
      [] q.handler = "setAvailability" -> Respond(q, 200, SuccessBody(success))
      [] q.handler = "addConcert" ->
            Respond(q, 200, JObj([success |-> Bool(success), concert |-> JObj(q.item)]))
      [] q.handler = "addLink" ->
            Respond(q, 200, JObj([success |-> Bool(success), link |-> JObj(q.body)]))
      [] q.handler \in {"deleteConcert", "deleteLink"} ->
            Respond(q, 200, SuccessBody(success))

(***************************************************************************)
(* Relational handlers (src/unnamed/part_000).                             *)
(***************************************************************************)
\* From the arrival of the request to its first await.
RelStart(q) ==
    CASE q.handler = "health" -> AwaitRead(q, "")
      [] q.handler = "getCurrentUser" -> AwaitRead(q, currentUserKey(q.params.userId))
      [] q.handler = "setCurrentUser" ->
            AwaitSetData(q, currentUserKey(q.params.userId), Prop(q.body, "user"))
      [] q.handler \in {"getAvailability", "setAvailability"} ->
            LET decodedMember == decodeURIComponent(q.params.member)
                key == availabilityKey(decodedMember.str, q.params.year, q.params.month)
            IN  IF ~decodedMember.ok THEN Throw(q)
                ELSE IF q.handler = "getAvailability" THEN AwaitRead(q, key)
                ELSE AwaitSetData(q, key, JObj(q.body))
      [] q.handler = "getAllAvailabilities" ->
            AwaitRead([q EXCEPT !.left = 1],
                      availabilityKey(members[1], q.params.year, q.params.month))
      [] q.handler \in {"getConcerts", "addConcert", "deleteConcert"} ->
            AwaitRead(q, "concerts")
      [] q.handler \in {"getLinks", "addLink", "deleteLink"} -> AwaitRead(q, "links")

\* From `await getData(key)` (`await pool.query('SELECT 1')` for the health
\* check) to the next await or the response.  q.value is what getData
\* returned, ok whether the query went through.
RelAfterRead(q, ok, t) ==
    LET value == q.value
        list == Or(value, JArr(<<>>)).l
    IN  CASE q.handler = "health" ->
                IF ok THEN Respond(q, 200, JObj([status |-> JStr("ok"),
                                                 database |-> JStr("connected")]))
                ELSE Respond(q, 500, JObj([status |-> JStr("error"),
                                           database |-> JStr("disconnected")]))
          [] q.handler = "getCurrentUser" -> Respond(q, 200, JObj([user |-> value]))
          [] q.handler = "getAvailability" -> Respond(q, 200, Or(value, EmptyObject))
          [] q.handler = "getAllAvailabilities" ->
                LET all == Assign(q.acc, members[q.left], Or(value, EmptyObject))
                IN  IF q.left < Len(members)
                    THEN AwaitRead([q EXCEPT !.acc = all, !.left = @ + 1],
                                   availabilityKey(members[q.left + 1],
                                                   q.params.year, q.params.month))
                    ELSE Respond([q EXCEPT !.acc = all], 200, JObj(all))
          [] q.handler \in {"getConcerts", "getLinks"} -> Respond(q, 200, JArr(list))
          [] q.handler = "addConcert" ->
                LET item == newConcert(q.body, t)
                IN  AwaitSetData([q EXCEPT !.item = item], "concerts",
                                 JArr(push(list, item)))
          [] q.handler = "addLink" ->
                AwaitSetData([q EXCEPT !.item = q.body], "links",
                             JArr(push(list, q.body)))
          [] q.handler \in {"deleteConcert", "deleteLink"} ->
                LET index == parseInt(q.params.index)
                IN  IF IndexInRange(index, Len(list))
                    THEN AwaitSetData([q EXCEPT !.item = At(list, index.n)], q.key,
                                      JArr(Splice(list, index.n)))
                    ELSE InvalidIndex(q)

(***************************************************************************)
(* Actions.                                                                *)
(***************************************************************************)
\* The request in, arrived at server be after n writes: dispatched and run
\* up to the first await of its handler.
Arrival(be, in, n) ==
    LET i == Dispatch(Routes(be), in.method, in.path)
        route == Routes(be)[i]
        q == [NoRequest EXCEPT !.method = in.method, !.path = in.path,
                               !.body = in.body, !.handler = route.handler,
                               !.params = Params(route, in.path),
                               !.arrived = n]
    IN  IF i = 0
        THEN Respond([NoRequest EXCEPT !.method = in.method, !.path = in.path,
                                       !.body = in.body, !.handler = "notFound"],
                     404, JUndefined)
        ELSE IF be = "FlatFile" THEN FlatStart(q) ELSE RelStart(q)

\* Request r arrives: Express picks the route and runs the handler up to
\* its first await.  A path no route matches is answered 404.
Accept(r) ==
    /\ up
    /\ reqs[r].pc = "none"
    /\ \A earlier \in 1..(r - 1) : reqs[earlier].pc # "none"
    /\ \E in \in Inputs : reqs' = [reqs EXCEPT ![r] = Arrival(backend, in, Len(log))]
    /\ UNCHANGED <<backend, up, exists, file, truncated, table, now, log>>

ReadDataRepairs(r) ==
    /\ backend = "FlatFile"
    /\ reqs[r].pc = "read"
    /\ \E ok \in IF truncated THEN {FALSE} ELSE BOOLEAN,
          t \in IF ReadsClock(reqs[r]) THEN Ticks ELSE {now} :
        /\ reqs' = [reqs EXCEPT ![r] =
                FlatAfterRead([@ EXCEPT !.read = IF ok THEN "ok" ELSE "error",
                                        !.seen = Len(log),
                                        !.data = readData(file, ok)], t)]
        /\ now' = t
        /\ file' = IF ok THEN file ELSE initialData
        /\ truncated' = (ok /\ truncated)
    /\ UNCHANGED <<backend, up, exists, table, log>>

\* FlatFile: the readData() a handler awaits completes (or throws and falls
\* back), and the handler runs on to its next await or its response.
ReadData(r) ==
    /\ backend = "FlatFile"
    /\ reqs[r].pc = "read"
    /\ \E ok \in IF truncated THEN {FALSE} ELSE BOOLEAN,
          t \in IF ReadsClock(reqs[r]) THEN Ticks ELSE {now} :
        /\ reqs' = [reqs EXCEPT ![r] =
                FlatAfterRead([@ EXCEPT !.read = IF ok THEN "ok" ELSE "error",
                                        !.seen = Len(log),
                                        !.data = readData(file, ok)], t)]
        /\ now' = t
    /\ UNCHANGED <<backend, up, exists, file, truncated, table, log>>

\* FlatFile: the writeData(data) a handler awaits completes, and the handler
\* responds.  fs.writeFile opens data.json with flag 'w', which empties it,
\* and then writes: when it fails it has either left the file alone (opened
\* is FALSE) or left a part of a document.
WriteData(r) ==
    /\ backend = "FlatFile"
    /\ reqs[r].pc = "write"
    /\ \E ok \in BOOLEAN, opened \in BOOLEAN :
        /\ ok => opened
        /\ file' = writeData(file, reqs[r].newData, ok)
        /\ truncated' = IF ok THEN FALSE ELSE (truncated \/ opened)
        /\ log' = IF ok THEN Append(log, [req |-> r, key |-> "data.json"]) ELSE log
        /\ reqs' = [reqs EXCEPT ![r] =
                AfterWrite([@ EXCEPT !.write = IF ok THEN "ok" ELSE "error"], ok)]
    /\ UNCHANGED <<backend, up, exists, table, now>>

\* Relational: the getData(key) (or the health probe) a handler awaits
\* completes, and the handler runs on.
GetData(r) ==
    /\ backend = "Relational"
    /\ reqs[r].pc = "read"
    /\ \E ok \in IF exists \/ reqs[r].handler = "health" THEN BOOLEAN ELSE {FALSE},
          t \in IF ReadsClock(reqs[r]) THEN Ticks ELSE {now} :
        /\ reqs' = [reqs EXCEPT ![r] =
                RelAfterRead([@ EXCEPT !.read = IF ok THEN "ok" ELSE "error",
                                       !.seen = Len(log),
                                       !.value = getData(table, reqs[r].key, ok)], ok, t)]
        /\ now' = t
    /\ UNCHANGED <<backend, up, exists, file, truncated, table, log>>

\* Relational: the setData(key, value) a handler awaits completes, and the
\* handler responds.
SetData(r) ==
    /\ backend = "Relational"
    /\ reqs[r].pc = "write"
    /\ \E mediumOk \in IF exists THEN BOOLEAN ELSE {FALSE} :
        LET ok == UpsertOk(reqs[r].newValue, mediumOk)
        IN  /\ table' = setData(table, reqs[r].key, reqs[r].newValue, ok)
            /\ log' = IF ok THEN Append(log, [req |-> r, key |-> reqs[r].key]) ELSE log
            /\ reqs' = [reqs EXCEPT ![r] =
                    AfterWrite([@ EXCEPT !.write = IF ok THEN "ok" ELSE "error"], ok)]
    /\ UNCHANGED <<backend, up, exists, file, truncated, now>>

Next ==
    \E r \in Reqs :
        \/ Accept(r)
        \/ ReadData(r)
        \/ WriteData(r)
        \/ GetData(r)
        \/ SetData(r)

Spec == Init /\ [][Next]_vars

(***************************************************************************)
(* The server with its start: startServer awaits the initialisation and    *)
(* then listens.  The store it finds is absent, or was left by an earlier  *)
(* run, or is a data.json that something else wrote (the document {}).     *)
(***************************************************************************)
InitLife ==
    /\ backend \in {"FlatFile", "Relational"}
    /\ up = FALSE
    /\ \/ /\ exists = FALSE
          /\ file = initialData
          /\ table = NoProps
       \/ /\ exists = TRUE
          /\ \E n \in 0..MaxPrior :
                /\ file = IF backend = "FlatFile" THEN PriorFile(n) ELSE initialData
                /\ table = IF backend = "Relational" THEN PriorTable(n) ELSE NoProps
       \/ /\ exists = TRUE
          /\ backend = "FlatFile"
          /\ file = NoProps
          /\ table = NoProps
    /\ truncated = FALSE
    /\ now = MaxPrior + 1
    /\ reqs = [r \in Reqs |-> NoRequest]
    /\ log = <<>>

\* FlatFile: startServer.  fs.access(DATA_FILE) resolves or rejects; when
\* it rejects, for whatever reason, the catch block writes initialData, and
\* when that write throws initDataFile rejects and the server never listens.
InitDataFile ==
    /\ backend = "FlatFile"
    /\ ~up
    /\ \E accessOk \in IF exists THEN BOOLEAN ELSE {FALSE},
          ok \in BOOLEAN, opened \in BOOLEAN :
        /\ ok => opened
        /\ IF accessOk
           THEN /\ up' = TRUE
                /\ UNCHANGED <<exists, file, truncated>>
           ELSE /\ file' = writeData(file, initialData, ok)
                /\ exists' = (exists \/ opened)
                /\ truncated' = IF ok THEN FALSE ELSE (truncated \/ opened)
                /\ up' = ok
    /\ UNCHANGED <<backend, table, now, reqs, log>>

\* Relational: startServer.  CREATE TABLE IF NOT EXISTS; an error is caught
\* and logged, and the server listens all the same.
InitDatabase ==
    /\ backend = "Relational"
    /\ ~up
    /\ \E ok \in BOOLEAN : exists' = (exists \/ ok)
    /\ up' = TRUE
    /\ UNCHANGED <<backend, file, truncated, table, now, reqs, log>>

\* The process is stopped while no handler awaits its backend.
StopServer ==
    /\ up
    /\ \A r \in Reqs : reqs[r].pc \notin {"read", "write"}
    /\ up' = FALSE
    /\ UNCHANGED <<backend, exists, file, truncated, table, now, reqs, log>>

\* The backend call request r awaits never settles: fs.readFile, fs.writeFile
\* and pool.query are called with no timeout.
Hang(r) ==
    /\ reqs[r].pc \in {"read", "write"}
    /\ reqs' = [reqs EXCEPT ![r].pc = "hung"]
    /\ UNCHANGED <<backend, up, exists, file, truncated, table, now, log>>

NextLife ==
    \/ Next
    \/ InitDataFile
    \/ InitDatabase
    \/ StopServer
    \/ \E r \in Reqs : Hang(r)

LifeSpec == InitLife /\ [][NextLife]_vars

(***************************************************************************)
(* The two servers side by side: both start on an empty store and are sent *)
(* the same requests, one after the other, each handled to its response    *)
(* before the next is sent; no backend call fails.  reqs[1] is the last    *)
(* request as the FlatFile server handled it, reqs[2] as the Relational    *)
(* server did.                                                             *)
(***************************************************************************)
\* The requests on the endpoints the two servers share.
SharedInputs ==
    {in \in Inputs : in.path \notin {<<"api", "data">>, <<"api", "health">>}}

\* The FlatFile server handles request in on file f: the request at its
\* end and the file afterwards.
FlatRun(f, in, t) ==
    LET q0 == Arrival("FlatFile", in, 0)
        q1 == IF q0.pc = "read"
              THEN FlatAfterRead([q0 EXCEPT !.read = "ok", !.data = readData(f, TRUE)], t)
              ELSE q0
    IN  IF q1.pc = "write"
        THEN [q |-> AfterWrite([q1 EXCEPT !.write = "ok"], TRUE),
              file |-> writeData(f, q1.newData, TRUE)]
        ELSE [q |-> q1, file |-> f]

\* The Relational handler from its pending getData to its setData or its
\* response.
RECURSIVE RelReads(_, _, _)
RelReads(q, tbl, t) ==
    IF q.pc = "read"
    THEN RelReads(RelAfterRead([q EXCEPT !.read = "ok",
                                         !.value = getData(tbl, q.key, TRUE)], TRUE, t),
                  tbl, t)
    ELSE q

\* The Relational server handles request in on table tbl.
RelRun(tbl, in, t) ==
    LET q1 == RelReads(Arrival("Relational", in, 0), tbl, t)
        ok == UpsertOk(q1.newValue, TRUE)
    IN  IF q1.pc = "write"
        THEN [q |-> AfterWrite([q1 EXCEPT !.write = IF ok THEN "ok" ELSE "error"], ok),
              table |-> setData(tbl, q1.key, q1.newValue, ok)]
        ELSE [q |-> q1, table |-> tbl]

InitBoth ==
    /\ backend = "both"
    /\ up = TRUE
    /\ exists = TRUE
    /\ file = initialData
    /\ truncated = FALSE
    /\ table = NoProps
    /\ now = MaxPrior
    /\ reqs = [r \in Reqs |-> NoRequest]
    /\ log = <<>>

\* The next request is sent to both servers; the clock has ticked.
Sequential ==
    /\ now < MaxPrior + MaxClock
    /\ \E in \in SharedInputs :
        LET flat == FlatRun(file, in, now + 1)
            rel == RelRun(table, in, now + 1)
        IN  /\ reqs' = [r \in Reqs |-> IF r = 1 THEN flat.q
                                      ELSE IF r = 2 THEN rel.q ELSE NoRequest]
            /\ file' = flat.file
            /\ table' = rel.table
    /\ now' = now + 1
    /\ UNCHANGED <<backend, up, exists, truncated, log>>

BothSpec == InitBoth /\ [][Sequential]_vars

(***************************************************************************)
(* Vocabulary of the properties.                                           *)
(***************************************************************************)
Done(r) == reqs[r].pc = "done"

\* The backend write of request r took effect.
Committed(r) == \E i \in 1..Len(log) : log[i].req = r

\* Its place among the writes that took effect.
CommitAt(r) == CHOOSE i \in 1..Len(log) : log[i].req = r

\* Request g arrived after the write of p took effect, and no other write
\* to the same unit of storage (the row of the key; the whole file for
\* FlatFile) took effect between that write and the read of g.
ReadsWriteOf(g, p) ==
    /\ Committed(p)
    /\ CommitAt(p) <= reqs[g].arrived
    /\ \A i \in (CommitAt(p) + 1)..reqs[g].seen : log[i].key # log[CommitAt(p)].key

\* No write to the unit of storage request r writes took effect between r's
\* read and now.
NoWriteSinceRead(r) ==
    \A i \in (reqs[r].seen + 1)..Len(log) :
        log[i].key # (IF backend = "FlatFile" THEN "data.json" ELSE reqs[r].key)

IsPut(q) == q.handler \in {"setCurrentUser", "setAvailability"}

IsAppend(q) == q.handler \in {"addConcert", "addLink"}

IsDelete(q) == q.handler \in {"deleteConcert", "deleteLink"}

OnConcerts(q) == q.handler \in {"getConcerts", "addConcert", "deleteConcert"}

\* The list a concerts or links handler works on, as its read returned it.
ListRead(q) ==
    IF backend = "FlatFile"
    THEN (IF OnConcerts(q) THEN q.data.concerts ELSE q.data.links)
    ELSE Or(q.value, JArr(<<>>)).l

\* The list as stored now (empty when the Relational key is absent).
StoredList(q) ==
    IF backend = "FlatFile"
    THEN (IF OnConcerts(q) THEN file.concerts ELSE file.links)
    ELSE Or(Prop(table, IF OnConcerts(q) THEN "concerts" ELSE "links"), JArr(<<>>)).l

(***************************************************************************)
(* C1.  Round trip: a successful put of a JSON value v under key k (POST   *)
(* current-user, POST availability) followed by the matching GET, with no  *)
(* write to k in between, returns exactly v, in both servers; v ranges     *)
(* over the falsy values false, 0, "" and null too.                        *)
(***************************************************************************)
\* The GET g returns is the round trip of the put p.
RoundTripCase(p, g) ==
    /\ p # g
    /\ IsPut(reqs[p])
    /\ reqs[p].write = "ok"
    /\ reqs[p].handler = "setCurrentUser" => "user" \in DOMAIN reqs[p].body
    /\ reqs[g].handler =
          (IF reqs[p].handler = "setCurrentUser" THEN "getCurrentUser"
           ELSE "getAvailability")
    /\ reqs[g].key = reqs[p].key
    /\ Done(g)
    /\ reqs[g].read = "ok"
    /\ ReadsWriteOf(g, p)

\* The response that returns the value p put.
ReturnsValueOf(p) ==
    [status |-> 200,
     body |-> IF reqs[p].handler = "setCurrentUser"
              THEN JObj([user |-> reqs[p].body.user])
              ELSE JObj(reqs[p].body)]

C1_RoundTrip ==
    \A p, g \in Reqs : RoundTripCase(p, g) => reqs[g].res = ReturnsValueOf(p)

(***************************************************************************)
(* C2.  With no prior writes, GET /api/availability/all/<year>/<month>     *)
(* returns an object whose keys are exactly the six member names, each     *)
(* mapped to the empty map.                                                *)
(***************************************************************************)
IsGetAll(q) ==
    /\ q.method = "GET"
    /\ Len(q.path) = 5
    /\ q.path[1] = "api" /\ q.path[2] = "availability" /\ q.path[3] = "all"

SixEmptyMaps == JObj([m \in {members[i] : i \in 1..Len(members)} |-> EmptyObject])

C2_AllOnEmptyStore ==
    \A g \in Reqs :
        (Done(g) /\ IsGetAll(reqs[g]) /\ reqs[g].read = "ok" /\ reqs[g].seen = 0)
            => reqs[g].res = [status |-> 200, body |-> SixEmptyMaps]

(***************************************************************************)
(* C3.  Lost update on append, in both servers: two appends to the same    *)
(* list that read the same prior list each write back that list plus their *)
(* own item; when both writes have taken effect and both requests have     *)
(* answered success, the stored list is the prior list plus the item of    *)
(* the later write only.                                                   *)
(***************************************************************************)
AnsweredSuccess(r) ==
    /\ Done(r)
    /\ reqs[r].res.status = 200
    /\ reqs[r].res.body.o.success = Bool(TRUE)

\* The write of r is the last one that took effect on its unit of storage.
LastWrite(r) ==
    /\ Committed(r)
    /\ \A i \in (CommitAt(r) + 1)..Len(log) : log[i].key # log[CommitAt(r)].key

\* p and q appended to the same list, both read the same prior list, both
\* writes took effect, q's before p's, and none after.
LostAppendCase(p, q) ==
    /\ p # q
    /\ IsAppend(reqs[p])
    /\ reqs[q].handler = reqs[p].handler
    /\ reqs[p].read = "ok" /\ reqs[q].read = "ok"
    /\ ListRead(reqs[p]) = ListRead(reqs[q])
    /\ AnsweredSuccess(p) /\ AnsweredSuccess(q)
    /\ Committed(p) /\ Committed(q)
    /\ CommitAt(q) < CommitAt(p)
    /\ LastWrite(p)

C3_LostUpdateOnAppend ==
    \A p, q \in Reqs :
        LostAppendCase(p, q) =>
            /\ StoredList(reqs[p]) = Append(ListRead(reqs[p]), reqs[p].item)
            /\ Len(StoredList(reqs[p])) = Len(ListRead(reqs[q])) + 1

\* Reached on the Relational server, with two different items: the item of
\* q is not in the stored list.
C3_Witness ==
    \E p, q \in Reqs :
        /\ backend = "Relational"
        /\ LostAppendCase(p, q)
        /\ reqs[p].item # reqs[q].item
        /\ \A i \in 1..Len(StoredList(reqs[p])) : StoredList(reqs[p])[i] # reqs[q].item

(***************************************************************************)
(* C4.  FlatFile, lost update of the whole document: of two puts on        *)
(* different keys (A: POST availability, B: POST current-user, or the      *)
(* other way round) that interleave as read(A), read(B), write(B),         *)
(* write(A), both answer success and the stored document holds under B's   *)
(* key what A read there, not what B wrote.                                *)
(***************************************************************************)
Section(q) == IF q.handler = "setCurrentUser" THEN "currentUsers" ELSE "availabilities"

PutValue(q) == IF q.handler = "setCurrentUser" THEN Prop(q.body, "user") ELSE JObj(q.body)

\* a is A, b is B.
LostPutCase(a, b) ==
    /\ backend = "FlatFile"
    /\ a # b
    /\ IsPut(reqs[a]) /\ IsPut(reqs[b])
    /\ Section(reqs[a]) # Section(reqs[b]) \/ reqs[a].key # reqs[b].key
    /\ Committed(a) /\ Committed(b)
    /\ reqs[a].seen < CommitAt(b)
    /\ CommitAt(b) < CommitAt(a)
    /\ CommitAt(a) = Len(log)

C4_WholeDocumentLostUpdate ==
    \A a, b \in Reqs :
        LostPutCase(a, b) =>
            /\ AnsweredSuccess(a) /\ AnsweredSuccess(b)
            /\ Prop(file[Section(reqs[b])], reqs[b].key)
                 = Prop(Stringify(reqs[a].data)[Section(reqs[b])], reqs[b].key)

\* Reached with A a POST availability and B a POST current-user that wrote
\* a value the document does not hold afterwards.
C4_Witness ==
    \E a, b \in Reqs :
        /\ LostPutCase(a, b)
        /\ reqs[a].handler = "setAvailability"
        /\ reqs[b].handler = "setCurrentUser"
        /\ reqs[a].read = "ok" /\ reqs[b].read = "ok"
        /\ PutValue(reqs[b]).t = "string" /\ Truthy(PutValue(reqs[b]))
        /\ Prop(file.currentUsers, reqs[b].key) # PutValue(reqs[b])

(***************************************************************************)
(* C5.  Relational, single-key put under concurrency: the value stored     *)
(* under a key is the value of the setData on that key that took effect    *)
(* last; a key no setData touched holds what it held at the start; every   *)
(* getData that went through returned null (absent) or the whole value of  *)
(* one setData on its key (or the value the key held at the start).        *)
(***************************************************************************)
WritesOf(k) == {i \in 1..Len(log) : log[i].key = k}

LastValue(k) ==
    LET last == CHOOSE i \in WritesOf(k) : \A j \in WritesOf(k) : j <= i
    IN  reqs[log[last].req].newValue

C5_AtomicPut ==
    backend = "Relational" =>
        \E n \in 0..MaxPrior :
            /\ \A k \in DOMAIN table \cup DOMAIN PriorTable(n) \cup {log[i].key : i \in 1..Len(log)} :
                    Prop(table, k) = IF WritesOf(k) # {} THEN LastValue(k)
                                     ELSE Prop(PriorTable(n), k)
            /\ \A g \in Reqs :
                    reqs[g].read = "ok" /\ reqs[g].handler # "health" =>
                        \/ reqs[g].value = JNull
                        \/ reqs[g].value = Prop(PriorTable(n), reqs[g].key)
                        \/ \E p \in Reqs :
                            /\ reqs[p].nwrites > 0
                            /\ reqs[p].key = reqs[g].key
                            /\ reqs[p].newValue = reqs[g].value

\* Two puts on the same key with different values, in flight together (each
\* arrived before the write of the other took effect), both took effect.
C5_Witness ==
    \E p, q \in Reqs :
        /\ backend = "Relational"
        /\ p # q
        /\ reqs[p].handler = "setCurrentUser" /\ reqs[q].handler = "setCurrentUser"
        /\ reqs[p].key = reqs[q].key
        /\ reqs[p].newValue # reqs[q].newValue
        /\ Committed(p) /\ Committed(q)
        /\ reqs[p].arrived < CommitAt(q) /\ reqs[q].arrived < CommitAt(p)
        /\ CommitAt(q) < CommitAt(p)
        /\ table[reqs[p].key] = reqs[p].newValue

(***************************************************************************)
(* C6.  Absent and error are told apart: a GET of the current user, of an  *)
(* availability, of the concerts or of the links whose backend read failed *)
(* does not answer what it answers for a key that is merely absent         *)
(* ({user: null}, {} or []).                                               *)
(***************************************************************************)
IsRead(q) ==
    q.handler \in {"getCurrentUser", "getAvailability", "getConcerts", "getLinks"}

\* The answer for an absent key.
AbsentResponse(q) ==
    [status |-> 200,
     body |-> CASE q.handler = "getCurrentUser" -> JObj([user |-> JNull])
                [] q.handler = "getAvailability" -> EmptyObject
                [] OTHER -> JArr(<<>>)]

OutOfRange(str, length) ==
    LET index == parseInt(str)
    IN  index.nan \/ index.n < 0 \/ index.n >= length

\* The step in which the read of the DELETE r completes.
RemoveAtInvalid(r) ==
    (/\ IsDelete(reqs[r])
     /\ reqs[r].pc = "read"
     /\ reqs'[r].pc # "read"
     /\ OutOfRange(reqs[r].params.index, Len(StoredList(reqs[r]))))
    => /\ reqs'[r].pc = "done"
       /\ reqs'[r].nwrites = 0
       /\ reqs'[r].res.status = 400
       /\ DOMAIN reqs'[r].res.body.o = {"success", "error"}
       /\ reqs'[r].res.body.o.success = Bool(FALSE)
       /\ reqs'[r].res.body.o.error.t = "string"
       /\ reqs'[r].res.body.o.error.s # ""
       /\ file' = file /\ truncated' = truncated /\ table' = table /\ log' = log

AnsweredIsFinal(r) == reqs[r].pc = "done" => reqs'[r] = reqs[r]

C7_RemoveAtInvalidIndex ==
    [][\A r \in Reqs : RemoveAtInvalid(r) /\ AnsweredIsFinal(r)]_vars

\* Reached with an index equal to the length of a list that is not empty,
\* and with an index that is not a number.
C7_Witness ==
    \E r, q \in Reqs :
        /\ IsDelete(reqs[r]) /\ IsDelete(reqs[q])
        /\ reqs[r].read = "ok" /\ reqs[q].read = "ok"
        /\ Len(ListRead(reqs[r])) > 0
        /\ parseInt(reqs[r].params.index) = [nan |-> FALSE, n |-> Len(ListRead(reqs[r]))]
        /\ parseInt(reqs[q].params.index).nan
        /\ reqs[r].res.status = 400 /\ reqs[q].res.status = 400
        /\ StoredList(reqs[r]) = ListRead(reqs[r])
        /\ log = <<>>

(***************************************************************************)
(* C8.  removeAt with a valid index: when the write of a DELETE            *)
(* /api/concerts/i or DELETE /api/links/i takes effect, 0 <= i < n for the *)
(* stored list of length n, and no write took effect since the request     *)
(* read the list, the request answers success and the stored list          *)
(* afterwards has length n - 1 and is the old list without its element at  *)
(* position i, the others in their order.                                  *)
(***************************************************************************)
\* old without its element at position i (counted from 0).
Without(old, i) == [j \in 1..(Len(old) - 1) |-> IF j <= i THEN old[j] ELSE old[j + 1]]

RemoveAtValid(r) ==
    LET i == parseInt(reqs[r].params.index)
        old == StoredList(reqs[r])
    IN  (/\ IsDelete(reqs[r])
         /\ reqs[r].pc = "write"
         /\ reqs'[r].write = "ok"
         /\ NoWriteSinceRead(r)
         /\ ~i.nan /\ 0 <= i.n /\ i.n < Len(old))
        => /\ AnsweredSuccess(r)'
           /\ Len(StoredList(reqs[r])') = Len(old) - 1
           /\ StoredList(reqs[r])' = Without(old, i.n)

C8_RemoveAtValidIndex == [][\A r \in Reqs : RemoveAtValid(r)]_vars

\* Reached with the element in the middle of a list of three removed.
C8_Witness ==
    \E r \in Reqs :
        /\ IsDelete(reqs[r])
        /\ AnsweredSuccess(r)
        /\ Len(ListRead(reqs[r])) = 3
        /\ parseInt(reqs[r].params.index) = [nan |-> FALSE, n |-> 1]
        /\ log = <<[req |-> r, key |-> IF backend = "FlatFile" THEN "data.json"
                                       ELSE reqs[r].key]>>
        /\ StoredList(reqs[r]) = <<ListRead(reqs[r])[1], ListRead(reqs[r])[3]>>

(***************************************************************************)
(* C9.  append with no concurrent writer: when the write of a POST         *)
(* /api/concerts or POST /api/links takes effect and no write took effect  *)
(* since the request started, the request answers success and the stored   *)
(* list afterwards is the old list (of length n, empty when the key is     *)
(* absent) followed by the new item, of length n + 1.                      *)
(***************************************************************************)
AppendAlone(r) ==
    LET old == StoredList(reqs[r])
    IN  (/\ IsAppend(reqs[r])
         /\ reqs[r].pc = "write"
         /\ reqs'[r].write = "ok"
         /\ Len(log) = reqs[r].arrived
         /\ ~truncated)
        => /\ AnsweredSuccess(r)'
           /\ Len(StoredList(reqs[r])') = Len(old) + 1
           /\ StoredList(reqs[r])' = Append(old, reqs[r].item)

C9_AppendAlone == [][\A r \in Reqs : AppendAlone(r)]_vars

(***************************************************************************)
(* C10.  A failed put is surfaced and not applied: when the write of a     *)
(* mutating request fails (writeData / setData returns false), the request *)
(* answers success = false, the store is as it was before the write, and   *)
(* the request has issued that one write only and does nothing more.       *)
(***************************************************************************)
FailedPut(r) ==
    (reqs[r].pc = "write" /\ reqs'[r].write = "error")
    => /\ reqs'[r].pc = "done"
       /\ reqs'[r].res.body.o.success = Bool(FALSE)
       /\ reqs'[r].nwrites = 1
       /\ file' = file /\ truncated' = truncated /\ table' = table

C10_FailedPutNotApplied ==
    [][\A r \in Reqs : FailedPut(r) /\ AnsweredIsFinal(r)]_vars

(***************************************************************************)
(* C11.  A key that was never written reads as absent, never as an error:  *)
(* a GET of the current user, of an availability, of the concerts or of    *)
(* the links, whose read completes while the store holds nothing under    *)
(* its key and no write has taken effect, answers 200 with {user: null},   *)
(* {} or [], whatever store the initialisation accepted.                   *)
(***************************************************************************)
\* The store holds nothing under the key request q reads.
NothingStored(q) ==
    IF backend = "Relational" THEN q.key \notin DOMAIN table
    ELSE \/ Dereferences(q) \notin DOMAIN file
         \/ IF q.handler \in {"getConcerts", "getLinks"}
            THEN file[Dereferences(q)] = <<>>
            ELSE q.key \notin DOMAIN file[Dereferences(q)]

\* The step in which the read of the GET g completes.
ReadsUnwritten(g) ==
    (/\ IsRead(reqs[g])
     /\ reqs[g].pc = "read"
     /\ reqs'[g].pc \in {"done", "threw"}
     /\ log = <<>>
     /\ NothingStored(reqs[g]))
    => /\ reqs'[g].pc = "done"
       /\ reqs'[g].res = AbsentResponse(reqs[g])

C11_AbsentForUnwritten == [][\A g \in Reqs : ReadsUnwritten(g)]_vars

(***************************************************************************)
(* C12.  The availability key is injective: two availability requests      *)
(* whose (member, year, month), the member decoded, differ work on         *)
(* different store keys, so that a GET for one triple never answers what a *)
(* POST for another triple wrote.                                          *)
(***************************************************************************)
IsAvailability(q) == q.handler \in {"getAvailability", "setAvailability"}

\* (member, year, month) of an availability request, the member decoded.
Triple(q) ==
    <<decodeURIComponent(q.params.member).str, q.params.year, q.params.month>>

C12_KeyInjective ==
    \A p, g \in Reqs :
        (/\ IsAvailability(reqs[p]) /\ reqs[p].pc # "threw"
         /\ IsAvailability(reqs[g]) /\ reqs[g].pc # "threw"
         /\ Triple(reqs[p]) # Triple(reqs[g]))
        => /\ reqs[p].key # reqs[g].key
           /\ (/\ reqs[p].handler = "setAvailability"
               /\ reqs[p].body # NoProps
               /\ reqs[g].handler = "getAvailability"
               /\ Done(g))
              => reqs[g].res.body # JObj(reqs[p].body)

(***************************************************************************)
(* C13.  No request hangs: a request that has arrived and has not been     *)
(* answered has a backend call pending whose completion lets the handler   *)
(* run on, also after the medium has stopped answering; it has issued at   *)
(* most one write (no retry).                                              *)
(***************************************************************************)
\* The steps that take request r towards its response.
Completes(r) == ReadData(r) \/ WriteData(r) \/ GetData(r) \/ SetData(r)

C13_NoRequestHangs ==
    \A r \in Reqs :
        reqs[r].pc \notin {"none", "done"} =>
            /\ ENABLED Completes(r)
            /\ reqs[r].nwrites <= 1

(***************************************************************************)
(* C14.  The two servers answer alike: sent the same requests one after    *)
(* the other from an empty store, with no backend failure, the FlatFile    *)
(* server and the Relational server answer every request with the same     *)
(* status and the same body (both read the same clock).                    *)
(***************************************************************************)
C14_SameResponses ==
    reqs[1].pc # "none" =>
        /\ reqs[1].pc = reqs[2].pc
        /\ reqs[1].res = reqs[2].res

(***************************************************************************)
(* C15.  The initialisation destroys nothing and is idempotent: a run of   *)
(* initDataFile or initDatabase on a store that exists leaves every entry  *)
(* (the file, the table) as it was, however often it runs; initDataFile    *)
(* writes the empty structure only when data.json does not exist.          *)
(***************************************************************************)
InitKeepsData ==
    (InitDataFile \/ InitDatabase) =>
        /\ exists => (file' = file /\ truncated' = truncated /\ table' = table)
        /\ (~exists /\ up') => (file' = initialData /\ table' = NoProps)

C15_InitKeepsData == [][InitKeepsData]_vars

(***************************************************************************)
(* C16.  put is idempotent and never duplicates: when the write of a POST  *)
(* current-user or POST availability takes effect on a store that already  *)
(* holds its value under its key, no other write having taken effect since *)
(* the request arrived, the store is afterwards as it was before (put(k,   *)
(* v); put(k, v) is one put(k, v)); and the store holds no entry that was  *)
(* not there at the start or put since.                                    *)
(***************************************************************************)
\* What the store holds under the key of the put q.
Stored(q) ==
    IF backend = "FlatFile" THEN Prop(file[Section(q)], q.key) ELSE Prop(table, q.key)

SecondPut(r) ==
    (/\ IsPut(reqs[r])
     /\ reqs[r].pc = "write"
     /\ reqs'[r].write = "ok"
     /\ Len(log) = reqs[r].arrived
     /\ ~truncated
     /\ Stored(reqs[r]) = PutValue(reqs[r]))
    => (file' = file /\ table' = table)

\* The keys of the store are keys it held at the start or keys of writes.
NoEntryAdded ==
    /\ DOMAIN table' \subseteq DOMAIN table \cup {reqs[r].key : r \in Reqs}
    /\ DOMAIN file'.currentUsers \cup DOMAIN file'.availabilities \subseteq
          DOMAIN file.currentUsers \cup DOMAIN file.availabilities
          \cup {reqs[r].key : r \in Reqs}

C16_PutIdempotent == [][NoEntryAdded /\ \A r \in Reqs : SecondPut(r)]_vars

(***************************************************************************)
(* C17.  addedAt is assigned by the server: the record POST /api/concerts  *)
(* builds is the request body with addedAt set to the server's clock at    *)
(* that moment, whatever addedAt the body carried; that record is the      *)
(* concert of the response, and it is the element the write adds at the    *)
(* end of the stored list.                                                 *)
(***************************************************************************)
StampsConcert(r) ==
    (/\ reqs[r].handler = "addConcert"
     /\ reqs[r].pc = "read"
     /\ reqs'[r].pc = "write")
    => /\ DOMAIN reqs'[r].item = DOMAIN reqs[r].body \cup {"addedAt"}
       /\ reqs'[r].item.addedAt = now'
       /\ \A f \in DOMAIN reqs[r].body \ {"addedAt"} :
              reqs'[r].item[f] = reqs[r].body[f]

AppendsStamped(r) ==
    (/\ reqs[r].handler = "addConcert"
     /\ reqs[r].pc = "write"
     /\ reqs'[r].pc = "done")
    => /\ reqs'[r].res.body.o.concert = JObj(reqs[r].item)
       /\ reqs'[r].write = "ok" =>
              /\ StoredList(reqs[r])' # <<>>
              /\ StoredList(reqs[r])'[Len(StoredList(reqs[r])')] = reqs[r].item

C17_AddedAtServerAssigned ==
    [][\A r \in Reqs : StampsConcert(r) /\ AppendsStamped(r)]_vars

\* A concert posted with an addedAt of the client's is stored and answered
\* with the server's.
C17_Witness ==
    \E r \in Reqs :
        /\ reqs[r].handler = "addConcert"
        /\ "addedAt" \in DOMAIN reqs[r].body
        /\ AnsweredSuccess(r)
        /\ LastWrite(r)
        /\ StoredList(reqs[r])[Len(StoredList(reqs[r]))] = reqs[r].item
        /\ reqs[r].item.addedAt # reqs[r].body.addedAt
        /\ reqs[r].res.body.o.concert.o.addedAt = reqs[r].item.addedAt

(***************************************************************************)
(* C18.  A mutating request never discards stored data it did not target:  *)
(* when the write of a put or of an append takes effect, no other write    *)
(* having taken effect since the request arrived (a sequential execution), *)
(* every entry under another key is stored afterwards as it was before,    *)
(* and the elements a list held before an append are all still in it, in   *)
(* their places.  There is no condition on how the request's own read      *)
(* went.                                                                   *)
(***************************************************************************)
IsPrefix(old, new) == Len(old) <= Len(new) /\ SubSeq(new, 1, Len(old)) = old

\* The entries of section s (an object of data.json) other than key k are
\* unchanged by the step.
KeepsOthers(s, k) ==
    \A j \in DOMAIN file[s] \ {k} : j \in DOMAIN file'[s] /\ file'[s][j] = file[s][j]

FlatKeepsUntargeted(q) ==
    /\ IF q.handler = "setCurrentUser"
       THEN KeepsOthers("currentUsers", q.key)
       ELSE file'.currentUsers = file.currentUsers
    /\ IF q.handler = "setAvailability"
       THEN KeepsOthers("availabilities", q.key)
       ELSE file'.availabilities = file.availabilities
    /\ IF q.handler = "addConcert"
       THEN IsPrefix(file.concerts, file'.concerts)
       ELSE file'.concerts = file.concerts
    /\ IF q.handler = "addLink"
       THEN IsPrefix(file.links, file'.links)
       ELSE file'.links = file.links

RelKeepsUntargeted(q) ==
    /\ \A j \in DOMAIN table \ {q.key} : j \in DOMAIN table' /\ table'[j] = table[j]
    /\ IsAppend(q) => IsPrefix(StoredList(q), StoredList(q)')

KeepsUntargeted(r) ==
    (/\ IsPut(reqs[r]) \/ IsAppend(reqs[r])
     /\ reqs[r].pc = "write"
     /\ reqs'[r].write = "ok"
     /\ Len(log) = reqs[r].arrived
     /\ ~truncated)
    => IF backend = "FlatFile"
       THEN FlatKeepsUntargeted(reqs[r])
       ELSE RelKeepsUntargeted(reqs[r])

C18_KeepsUntargeted == [][\A r \in Reqs : KeepsUntargeted(r)]_vars

(***************************************************************************)
(* C19.  A deleted element stays deleted: once a DELETE /api/concerts/i or *)
(* DELETE /api/links/i has answered success for the element e it read at   *)
(* position i, e is not in the stored list in any later state, under any   *)
(* interleaving, unless a POST that arrived after the delete's write       *)
(* appended it again; and every DELETE that answers success makes the      *)
(* stored list exactly one element shorter.                                *)
(***************************************************************************)
Occurrences(list, e) == Cardinality({j \in 1..Len(list) : list[j] = e})

AppendedItem(q) == IF q.handler = "addConcert" THEN q.item ELSE q.body

\* The element DELETE d removed from the list it read.
Deleted(d) == ListRead(reqs[d])[parseInt(reqs[d].params.index).n + 1]

\* DELETE d answered success for an element that was in its list once.
DeletedOne(d) ==
    /\ IsDelete(reqs[d])
    /\ AnsweredSuccess(d)
    /\ Committed(d)
    /\ Occurrences(ListRead(reqs[d]), Deleted(d)) = 1

ReAppended(d) ==
    \E p \in Reqs :
        /\ IsAppend(reqs[p])
        /\ OnConcerts(reqs[p]) = OnConcerts(reqs[d])
        /\ Committed(p)
        /\ reqs[p].arrived >= CommitAt(d)
        /\ AppendedItem(reqs[p]) = Deleted(d)

StaysDeleted ==
    \A d \in Reqs :
        (DeletedOne(d) /\ ~ReAppended(d))
        => Occurrences(StoredList(reqs[d]), Deleted(d)) = 0

AccountsForOne(r) ==
    (/\ IsDelete(reqs[r])
     /\ reqs[r].pc = "write"
     /\ reqs'[r].write = "ok")
    => Len(StoredList(reqs[r])') = Len(StoredList(reqs[r])) - 1

C19_DeletedStaysDeleted ==
    [][StaysDeleted' /\ \A r \in Reqs : AccountsForOne(r)]_vars

(***************************************************************************)
(* C19, as it holds.  Once a DELETE has answered success for e, e is not   *)
(* in the stored list as long as every write that took effect on the same  *)
(* unit of storage after the delete's (the row of the list; the whole of   *)
(* data.json) is of a request that read after the delete's write and that  *)
(* did not append e again: a request that read before it writes its        *)
(* snapshot back, e included.  And a successful DELETE stores the list it  *)
(* read without the one element at its index, whatever was written in      *)
(* between.                                                                *)
(***************************************************************************)
\* Every write after the one of d, on the same unit of storage, is of a
\* request that read when the write of d had taken effect.
OnlyLaterReaders(d) ==
    \A j \in (CommitAt(d) + 1)..Len(log) :
        log[j].key = log[CommitAt(d)].key => reqs[log[j].req].seen >= CommitAt(d)

StaysDeletedUnlessStale ==
    \A d \in Reqs :
        (DeletedOne(d) /\ ~ReAppended(d) /\ OnlyLaterReaders(d))
        => Occurrences(StoredList(reqs[d]), Deleted(d)) = 0

RemovesOneOfRead(r) ==
    (/\ IsDelete(reqs[r])
     /\ reqs[r].pc = "write"
     /\ reqs'[r].write = "ok")
    => /\ AnsweredSuccess(r)'
       /\ StoredList(reqs[r])' =
             Without(ListRead(reqs[r]), parseInt(reqs[r].params.index).n)

C19_StaysDeletedUnlessStale ==
    [][StaysDeletedUnlessStale' /\ \A r \in Reqs : RemovesOneOfRead(r)]_vars

\* A DELETE answered success, a POST that read after it wrote, and the
\* deleted element is not in the list.
C19_Witness ==
    \E d, p \in Reqs :
        /\ DeletedOne(d)
        /\ IsAppend(reqs[p])
        /\ OnConcerts(reqs[p]) = OnConcerts(reqs[d])
        /\ Committed(p)
        /\ reqs[p].read = "ok"
        /\ reqs[p].seen >= CommitAt(d)
        /\ CommitAt(p) > CommitAt(d)
        /\ Len(ListRead(reqs[d])) >= 2
        /\ Occurrences(StoredList(reqs[d]), Deleted(d)) = 0

(***************************************************************************)
(* C20.  Read requests never modify the store: no step of a GET request    *)
(* (its arrival, the completion of its read, its response), on any of the  *)
(* GET routes, changes the stored state or issues a backend write; that    *)
(* includes a GET whose read fails and which answers the default empty     *)
(* result.                                                                 *)
(***************************************************************************)
GetLeavesStore(r) ==
    (reqs'[r] # reqs[r] /\ reqs'[r].method = "GET")
    => /\ file' = file
       /\ truncated' = truncated
       /\ table' = table
       /\ exists' = exists
       /\ log' = log
       /\ reqs'[r].pc # "write"
       /\ reqs'[r].nwrites = 0
       /\ reqs'[r].write = "none"

C20_GetNeverWrites == [][\A r \in Reqs : GetLeavesStore(r)]_vars

\* A GET /api/concerts whose read failed answered the empty list, and the
\* three stored concerts are as they were.
C20_Witness ==
    \E r \in Reqs :
        /\ reqs[r].handler = "getConcerts"
        /\ Done(r)
        /\ reqs[r].read = "error"
        /\ reqs[r].res = [status |-> 200, body |-> JArr(<<>>)]
        /\ Len(StoredList(reqs[r])) = MaxPrior
        /\ log = <<>>
        /\ ~truncated

====
